---- MODULE Spec2Model ----
(***************************************************************************)
(* A model of destruct.py, a struct parsing library.  A descriptor         *)
(* consumes a prefix of a byte buffer, returns a value and records the     *)
(* number of bytes it used in its _consumed attribute.                     *)
(*                                                                         *)
(* Bytes are integers 0..255, a buffer is a sequence of bytes.  Python     *)
(* slicing clamps (input[:k] and input[k:] never fail), an exception ends  *)
(* the call that raised it unless a try block catches it.                  *)
(*                                                                         *)
(* Not modelled: Float and Double (Float.format reads self.endian, which   *)
(* Float.__init__ never sets), the on_<field> hooks of a record (the       *)
(* records here declare none), and encodings other than UTF-8.             *)
(***************************************************************************)
EXTENDS Integers, Sequences, FiniteSets

(***************************************************************************)
(* Bounds of the model.                                                    *)
(***************************************************************************)
\* longest buffer handed to a record, array, sequence or choice parse
MaxLen == 3
\* longest buffer handed to an integer parse (the widest format is 8 bytes)
MaxIntLen == 8
\* top-level parse calls made on one descriptor instance
MaxCalls == 2
\* elements of a result list that are kept; a longer list keeps its first
\* MaxRes elements (only a loop that never ends builds one)
MaxRes == MaxLen + 2

NUL == 0

\* the bytes buffers are made of: NUL, the ASCII letter 'a', and 0xFF, which
\* no UTF-8 text contains
Bytes == {NUL, 97, 255}
IntBytes == {0, 1, 255}

RECURSIVE SeqsUpTo(_, _)
SeqsUpTo(S, k) ==
    IF k = 0 THEN {<<>>}
    ELSE LET shorter == SeqsUpTo(S, k - 1)
         IN  shorter \cup {Append(s, x) : s \in {t \in shorter : Len(t) = k - 1}, x \in S}

Min(a, b) == IF a < b THEN a ELSE b
Max(a, b) == IF a > b THEN a ELSE b

\* input[:k]
Take(s, k) == SubSeq(s, 1, Min(k, Len(s)))
\* input[k:]
Drop(s, k) == SubSeq(s, Min(k, Len(s)) + 1, Len(s))

Reverse(s) == [i \in 1..Len(s) |-> s[Len(s) + 1 - i]]

(***************************************************************************)
(* Values.  Every value is a record of the same shape:                     *)
(*   int    digits: the bytes of the integer, least significant first;     *)
(*          neg: the format is signed and the sign bit is set              *)
(*   bytes  digits: the bytes                                              *)
(*   str    digits: the code points of the text                            *)
(*   none   None                                                           *)
(*   ref    num: the identity of a record (Struct) instance on the heap    *)
(***************************************************************************)
IntV(ds, neg) == [tag |-> "int",   num |-> 0, neg |-> neg,   digits |-> ds]
BytesV(bs)    == [tag |-> "bytes", num |-> 0, neg |-> FALSE, digits |-> bs]
StrV(cps)     == [tag |-> "str",   num |-> 0, neg |-> FALSE, digits |-> cps]
NoneV         == [tag |-> "none",  num |-> 0, neg |-> FALSE, digits |-> <<>>]
RefV(id)      == [tag |-> "ref",   num |-> id, neg |-> FALSE, digits |-> <<>>]
\* an attribute that was never assigned
Unset         == [tag |-> "unset", num |-> 0, neg |-> FALSE, digits |-> <<>>]

(***************************************************************************)
(* The outcome of one parse call on one descriptor instance: ok, the value *)
(* returned, whether the call assigned _consumed and to what, and for a    *)
(* failure the exception type and what its message reports.  A choice adds  *)
(* the entries of its aggregate message and the number of candidates it    *)
(* called.                                                                 *)
(***************************************************************************)
Ok(v, c) ==
    [ok |-> TRUE, val |-> v, setc |-> TRUE, c |-> c, exc |-> "", info |-> <<>>,
     entries |-> <<>>, tried |-> 0]
Raise(exc, info) ==
    [ok |-> FALSE, val |-> NoneV, setc |-> FALSE, c |-> 0, exc |-> exc, info |-> info,
     entries |-> <<>>, tried |-> 0]

(***************************************************************************)
(* Primitive descriptors, as their constructors build them.                *)
(***************************************************************************)
Leaf(kind, n, signed, endian, sequence, maxlen, amount) ==
    [kind |-> kind, n |-> n, signed |-> signed, endian |-> endian,
     sequence |-> sequence, maxlen |-> maxlen, amount |-> amount]

IntOf(n, signed, endian) == Leaf("Int", n, signed, endian, <<>>, 0, 0)
\* UInt.__new__ returns an Int with signed=False
UInt(n, endian) == IntOf(n, FALSE, endian)
Sig(sequence) == Leaf("Sig", 0, FALSE, "little", sequence, 0, 0)
Str(maxlen) == Leaf("Str", 0, FALSE, "little", <<>>, maxlen, 0)
Pad(amount) == Leaf("Pad", 0, FALSE, "little", <<>>, 0, amount)
\* Data.__init__ stores 0 whatever amount it is given
Data(amount) == Leaf("Data", 0, FALSE, "little", <<>>, 0, 0)

\* Int.SIZE_MAP with struct's standard sizes: every format Int.format builds
\* starts with '<', '>' or '=', so b, h, i, l, q are 1, 2, 4, 4, 8 bytes
FormatKind(n) ==
    CASE n = 8 -> "b" [] n = 16 -> "h" [] n = 32 -> "i" [] n = 64 -> "l" [] n = 128 -> "q"

calcsize(k) ==
    CASE k = "b" -> 1 [] k = "h" -> 2 [] k = "i" -> 4 [] k = "l" -> 4 [] k = "q" -> 8

\* the byte order '=' stands for is the host's
ByteOrder(endian, host) == IF endian = "native" THEN host ELSE endian

\* struct.unpack of one integer: the bytes least significant first, and the sign
unpack(signed, order, bs) ==
    LET ds == IF order = "little" THEN bs ELSE Reverse(bs)
    IN  IntV(ds, signed /\ ds[Len(ds)] >= 128)

\* Type.parse with Int.format
IntParse(d, host, input) ==
    LET size == calcsize(FormatKind(d.n))
        r == IF Len(input) < size
             THEN Raise("error", <<size>>)
             ELSE Ok(unpack(d.signed, ByteOrder(d.endian, host), Take(input, size)), size)
    IN  \* _consumed is assigned before unpack is called
        [r EXCEPT !.setc = TRUE, !.c = size]

SigParse(d, input) ==
    IF Take(input, Len(d.sequence)) = d.sequence
    THEN Ok(BytesV(d.sequence), Len(d.sequence))
    ELSE Raise("ValueError", Take(input, Len(d.sequence)))

\* bytes.rstrip(b'\x00')
RECURSIVE rstrip(_)
rstrip(bs) ==
    IF bs # <<>> /\ bs[Len(bs)] = NUL THEN rstrip(SubSeq(bs, 1, Len(bs) - 1)) ELSE bs

\* bytes.decode('utf-8') of bytes drawn from Bytes: a byte below 128 is the
\* code point of that number, 0xFF starts no UTF-8 sequence
FirstBad(bs) ==
    IF \E i \in 1..Len(bs) : bs[i] >= 128
    THEN CHOOSE i \in 1..Len(bs) : bs[i] >= 128 /\ \A j \in 1..(i - 1) : bs[j] < 128
    ELSE 0

decode(bs, c) ==
    IF FirstBad(bs) = 0 THEN Ok(StrV(bs), c)
    ELSE Raise("UnicodeDecodeError", <<bs[FirstBad(bs)], FirstBad(bs) - 1>>)

\* Str.parse.  With no maxlen the first statement is input.find('\x00'): the
\* needle is a str, and bytes.find accepts only bytes-likes and integers, so
\* the call raises TypeError before _consumed is assigned
StrParse(d, input) ==
    IF d.maxlen # 0
    THEN [decode(rstrip(Take(input, d.maxlen)), d.maxlen) EXCEPT !.setc = TRUE, !.c = d.maxlen]
    ELSE Raise("TypeError", <<>>)

PadParse(d, input) ==
    IF Len(input) < d.amount THEN Raise("ValueError", <<d.amount, Len(input)>>)
    ELSE Ok(NoneV, d.amount)

DataParse(d, input) ==
    IF Len(input) < d.amount THEN Raise("ValueError", <<d.amount, Len(input)>>)
    ELSE Ok(BytesV(Take(input, d.amount)), d.amount)

LeafParse(d, host, input) ==
    CASE d.kind = "Int"  -> IntParse(d, host, input)
      [] d.kind = "Sig"  -> SigParse(d, input)
      [] d.kind = "Str"  -> StrParse(d, input)
      [] d.kind = "Pad"  -> PadParse(d, input)
      [] d.kind = "Data" -> DataParse(d, input)

(***************************************************************************)
(* Any.parse: the candidates in declared order on the same input; the      *)
(* first that does not raise decides.  exceptions holds the outcomes of    *)
(* the candidates that raised.                                             *)
(***************************************************************************)
AnyMessages(children, exceptions) ==
    [j \in 1..Min(Len(children), Len(exceptions)) |->
        [cand |-> children[j].kind, exc |-> exceptions[j].exc, info |-> exceptions[j].info]]

RECURSIVE AnyLoop(_, _, _, _, _)
AnyLoop(children, host, input, k, exceptions) ==
    IF k > Len(children)
    THEN [Raise("ValueError", <<>>) EXCEPT
             !.entries = AnyMessages(children, exceptions), !.tried = k - 1]
    ELSE LET r == LeafParse(children[k], host, input)
         IN  IF r.ok
             THEN [Ok(r.val, r.c) EXCEPT !.tried = k]
             ELSE AnyLoop(children, host, input, k + 1, Append(exceptions, r))

\* a choice that lets a later candidate that parses replace an earlier one
AnyParseLast(children, host, input) ==
    LET good == {k \in 1..Len(children) : LeafParse(children[k], host, input).ok}
        last == CHOOSE k \in good : \A j \in good : j <= k
    IN  IF good = {} THEN AnyLoop(children, host, input, 1, <<>>)
        ELSE [Ok(LeafParse(children[last], host, input).val,
                 LeafParse(children[last], host, input).c) EXCEPT !.tried = last]

AnyParse(children, host, input) == AnyLoop(children, host, input, 1, <<>>)

(***************************************************************************)
(* Struct.parse.  A record instance is an object on the heap; attrs are    *)
(* the attributes setattr has given it, one per field of _spec.  The       *)
(* outcome carries the attributes as the call leaves them (also when a     *)
(* field raised) and, per field parsed, the window it was given, the       *)
(* bytes its descriptor consumed and the bytes the record counted for it.  *)
(***************************************************************************)
\* lines 187-189: nbytes after the alignment adjustment
AlignedBytes(nbytes, align) ==
    IF align # 0 THEN nbytes + (align - (nbytes % align)) ELSE nbytes

\* a record that treats a union as a struct
StructAdvanceSum(union, n, input, nbytes) ==
    [n |-> n + nbytes, input |-> Drop(input, nbytes)]

\* lines 191-195: the running total and the window after one field
StructAdvance(union, n, input, nbytes) ==
    IF union THEN [n |-> Max(n, nbytes), input |-> input]
    ELSE [n |-> n + nbytes, input |-> Drop(input, nbytes)]

RECURSIVE StructLoop(_, _, _, _, _, _, _, _)
StructLoop(s, host, self, k, n, input, attrs, steps) ==
    IF k > Len(s.children)
    THEN [out |-> Ok(RefV(self), n), attrs |-> attrs, steps |-> steps]
    ELSE LET r == LeafParse(s.children[k], host, input)
             nbytes == AlignedBytes(r.c, s.align)
             adv == StructAdvance(s.union, n, input, nbytes)
         IN  IF ~r.ok
             THEN [out |-> [r EXCEPT !.setc = FALSE, !.c = 0], attrs |-> attrs, steps |-> steps]
             ELSE StructLoop(s, host, self, k + 1, adv.n, adv.input,
                             [attrs EXCEPT ![k] = r.val],
                             Append(steps, [win |-> input, c |-> r.c, nbytes |-> nbytes]))

StructParse(s, host, self, input, attrs) ==
    StructLoop(s, host, self, 1, 0, input, attrs, <<>>)

(***************************************************************************)
(* The descriptors a parse is called on: a primitive, a record (Struct     *)
(* subclass, with the _align and _union its class statement gave it) or a  *)
(* choice.  children are a record's field descriptors in declared order, a *)
(* choice's candidates, or the one primitive.  cls: the caller passed the  *)
(* class of the record, not an instance.                                   *)
(***************************************************************************)
Prim(d) == [kind |-> "Prim", children |-> <<d>>, align |-> 0, union |-> FALSE, cls |-> FALSE]
Struct(fields, align, union, cls) ==
    [kind |-> "Struct", children |-> fields, align |-> align, union |-> union, cls |-> cls]
AnyOf(children) ==
    [kind |-> "Any", children |-> children, align |-> 0, union |-> FALSE, cls |-> FALSE]

\* a new instance of a record class: no field attribute assigned yet
NewAttrs(m) == [k \in 1..Len(m.children) |-> Unset]

\* one parse call on descriptor m, whose instance is object self with attrs
ParseOne(m, host, self, input, attrs) ==
    CASE m.kind = "Prim" ->
            [out |-> LeafParse(m.children[1], host, input), attrs |-> attrs, steps |-> <<>>]
      [] m.kind = "Any" ->
            [out |-> AnyParse(m.children, host, input), attrs |-> attrs, steps |-> <<>>]
      [] m.kind = "Struct" -> StructParse(m, host, self, input, attrs)

\* the list types and the module's parse function: Arr(child, length),
\* Seq(child, limit), parse(spec, input)
Arr(child, length) == [kind |-> "Arr", child |-> child, length |-> length, limit |-> 0]
SeqOf(child, limit) == [kind |-> "Seq", child |-> child, length |-> 0, limit |-> limit]
Direct(spec) == [kind |-> "Direct", child |-> spec, length |-> 0, limit |-> 0]

(***************************************************************************)
(* The state of one session: a caller holds one descriptor and calls it on *)
(* buffers.                                                                *)
(*   top       the descriptor the caller parses with                       *)
(*   host      the byte order of the machine                               *)
(*   callsLeft top-level parse calls the caller still makes                *)
(*   pc        where the current call stands: "idle" before the first      *)
(*             call; "Direct", "Arr", "ArrBody", "Seq", "SeqBody" inside   *)
(*             the call; "returned", "raised" after it                     *)
(*   buf       the buffer the current call was given                       *)
(*   input, n, res, i   the locals of Arr.parse and Seq.parse; i counts    *)
(*             the values range(length) has yielded                        *)
(*   consumed  _consumed of the instance the call was made on              *)
(*   retval    what the call returned: the list of Arr and Seq, or the one *)
(*             value of a direct parse                                     *)
(*   error     the outcome that raised, when the call raised               *)
(*   heap      the attributes of the record instances, by identity         *)
(*   cs        per element a list parse appended, the bytes its child      *)
(*             consumed (history)                                          *)
(*   steps     per field of the record parsed last, its window and bytes   *)
(*             (history)                                                   *)
(*   tried     the candidates the choice parsed last called (history)      *)
(*   returned  the identities of the records some parse call returned      *)
(*             (history)                                                   *)
(***************************************************************************)
VARIABLES top, host, callsLeft, pc, buf, input, n, res, i, consumed, retval,
          error, heap, cs, steps, tried, returned

vars == <<top, host, callsLeft, pc, buf, input, n, res, i, consumed, retval,
          error, heap, cs, steps, tried, returned>>

NoError == Raise("", <<>>)

\* the instance a record descriptor passed as an instance is: object 1
IsInstance(m) == m.kind = "Struct" /\ ~m.cls

\* list.append, keeping MaxRes elements
Keep(list, v) == IF Len(list) < MaxRes THEN Append(list, v) ELSE list

(***************************************************************************)
(* One parse call on the child of the top descriptor, as to_parser and     *)
(* parse make it: on the instance the caller built, or, for a record       *)
(* class, on a new instance (to_parser's spec()).  Gives the outcome and   *)
(* the heap after the call.                                                *)
(***************************************************************************)
ChildCall(m, hst, hp, inp, keep) ==
    LET self == IF IsInstance(m) THEN 1 ELSE Len(hp) + 1
        attrs == IF IsInstance(m) THEN hp[1] ELSE NewAttrs(m)
        r == ParseOne(m, hst, self, inp, attrs)
    IN  [out |-> r.out, steps |-> r.steps,
         heap |-> CASE m.kind # "Struct" -> hp
                    [] IsInstance(m) -> [hp EXCEPT ![1] = r.attrs]
                    [] OTHER -> IF r.out.ok /\ keep THEN Append(hp, r.attrs) ELSE hp]

Returned(out) == IF out.ok /\ out.val.tag = "ref" THEN {out.val.num} ELSE {}

\* the caller calls parse, Arr.parse or Seq.parse on a buffer of bufs
Call(bufs) ==
    /\ pc \in {"idle", "returned", "raised"}
    /\ callsLeft > 0
    /\ callsLeft' = callsLeft - 1
    /\ pc' = top.kind
    /\ \E b \in bufs : buf' = b /\ input' = b
    /\ n' = 0
    /\ res' = <<>>
    /\ i' = 0
    /\ retval' = <<>>
    /\ error' = NoError
    /\ cs' = <<>>
    /\ steps' = <<>>
    /\ tried' = 0
    /\ UNCHANGED <<top, host, consumed, heap, returned>>

\* parse(spec, input): to_parser(spec).parse(input)
DirectStep ==
    /\ pc = "Direct"
    /\ LET r == ChildCall(top.child, host, heap, input, TRUE)
           \* a new instance starts with the class's _consumed = 0
           before == IF top.child.cls THEN 0 ELSE consumed
       IN  /\ consumed' = IF r.out.setc THEN r.out.c ELSE before
           /\ heap' = r.heap
           /\ steps' = r.steps
           /\ tried' = r.out.tried
           /\ returned' = returned \cup Returned(r.out)
           /\ IF r.out.ok
              THEN pc' = "returned" /\ retval' = <<r.out.val>> /\ error' = error
              ELSE pc' = "raised" /\ retval' = retval /\ error' = r.out
    /\ UNCHANGED <<top, host, callsLeft, buf, input, n, res, i, cs>>

\* Arr.parse, the for statement: range(length) yields its next value into n,
\* or is exhausted and the loop ends; itertools.repeat(0) always yields 0
ArrFor ==
    /\ pc = "Arr"
    /\ IF top.length # 0 /\ i = top.length
       THEN /\ pc' = "returned" /\ consumed' = n /\ retval' = res
            /\ UNCHANGED <<n, i>>
       ELSE /\ pc' = "ArrBody"
            /\ n' = IF top.length # 0 THEN i ELSE 0
            /\ i' = IF top.length # 0 THEN i + 1 ELSE i
            /\ UNCHANGED <<consumed, retval>>
    /\ UNCHANGED <<top, host, callsLeft, buf, input, res, error, heap, cs, steps,
                   tried, returned>>

\* Arr.parse, the body of the for loop
ArrBody ==
    /\ pc = "ArrBody"
    /\ LET r == ChildCall(top.child, host, heap, input, Len(res) < MaxRes)
       IN  IF input = <<>>
           THEN IF top.length # 0
                THEN /\ pc' = "raised"
                     /\ error' = Raise("ValueError", <<top.length, n - 1>>)
                     /\ UNCHANGED <<input, n, res, consumed, retval, heap, cs, steps, returned>>
                ELSE \* break, and the statements after the loop
                     /\ pc' = "returned" /\ consumed' = n /\ retval' = res
                     /\ UNCHANGED <<input, n, res, error, heap, cs, steps, returned>>
           ELSE /\ heap' = r.heap
                /\ steps' = r.steps
                /\ returned' = returned \cup (IF Len(res) < MaxRes THEN Returned(r.out) ELSE {})
                /\ IF r.out.ok
                   THEN /\ pc' = "Arr"
                        /\ res' = Keep(res, r.out.val)
                        /\ cs' = Keep(cs, r.out.c)
                        /\ input' = Drop(input, r.out.c)
                        /\ n' = n + r.out.c
                        /\ UNCHANGED <<error, consumed, retval>>
                   ELSE /\ pc' = "raised" /\ error' = r.out
                        /\ UNCHANGED <<input, n, res, consumed, retval, cs>>
    /\ UNCHANGED <<top, host, callsLeft, buf, i, tried>>

\* a while condition that runs the body once more at the limit
SeqContinueAtLimit(inp, total, limit) == inp # <<>> /\ (limit = 0 \/ total <= limit)

\* line 271: the while condition of Seq.parse
SeqContinue(inp, total, limit) == inp # <<>> /\ (limit = 0 \/ total < limit)

\* Seq.parse, the while statement: into the body, or past the loop
SeqWhile ==
    /\ pc = "Seq"
    /\ IF SeqContinue(input, n, top.limit)
       THEN pc' = "SeqBody" /\ UNCHANGED <<consumed, retval>>
       ELSE pc' = "returned" /\ consumed' = n /\ retval' = res
    /\ UNCHANGED <<top, host, callsLeft, buf, input, n, res, i, error, heap, cs, steps,
                   tried, returned>>

\* Seq.parse, the body of the while loop.  self.child.parse on a class has no
\* self to bind input to and raises TypeError, which the bare except catches
\* like any other exception: break, and the statements after the loop
SeqBody ==
    /\ pc = "SeqBody"
    /\ LET r == ChildCall(top.child, host, heap, input, Len(res) < MaxRes)
       IN  IF top.child.cls
           THEN /\ pc' = "returned" /\ consumed' = n /\ retval' = res
                /\ UNCHANGED <<input, n, res, heap, cs, steps, returned>>
           ELSE /\ heap' = r.heap
                /\ IF r.out.ok
                   THEN /\ pc' = "Seq"
                        /\ res' = Keep(res, r.out.val)
                        /\ cs' = Keep(cs, r.out.c)
                        /\ input' = Drop(input, r.out.c)
                        /\ n' = n + r.out.c
                        /\ steps' = r.steps
                        /\ returned' = returned \cup
                              (IF Len(res) < MaxRes THEN Returned(r.out) ELSE {})
                        /\ UNCHANGED <<consumed, retval>>
                   ELSE /\ pc' = "returned" /\ consumed' = n /\ retval' = res
                        /\ UNCHANGED <<input, n, res, cs, steps, returned>>
    /\ UNCHANGED <<top, host, callsLeft, buf, i, error, tried>>

(***************************************************************************)
(* The descriptors and buffers the sessions are run on.                    *)
(***************************************************************************)
\* most fields of a record, candidates of a choice
MaxFields == 2
\* largest element count of an Arr; 0 stands for no count
MaxCount == 2

Buffers == SeqsUpTo(Bytes, MaxLen)
IntBuffers == SeqsUpTo(IntBytes, MaxIntLen)

Leaves ==
    {UInt(8, "little"), IntOf(16, TRUE, "big"), Sig(<<97>>), Sig(<<97, 97>>), Sig(<<>>),
     Str(0), Str(2), Pad(0), Pad(2), Data(2)}

FieldLeaves == {UInt(8, "little"), Sig(<<97>>), Sig(<<97, 97>>), Str(2), Pad(0)}

Ints ==
    {IntOf(w, s, e) : w \in {8, 16, 32, 64, 128}, s \in BOOLEAN,
                      e \in {"little", "big", "native"}}

\* records declared with align=2 or without, as struct or union (union=True)
Structs ==
    {Struct(f, a, u, FALSE) : f \in SeqsUpTo(FieldLeaves, MaxFields), a \in {0, 2}, u \in BOOLEAN}

Anys == {AnyOf(c) : c \in SeqsUpTo(Leaves, MaxFields)}

\* what a list type is given as child: a primitive, a record instance or a
\* record class
Children ==
    {Prim(d) : d \in Leaves}
        \cup {Struct(f, 0, FALSE, c) : f \in SeqsUpTo(FieldLeaves, MaxFields), c \in BOOLEAN}

Tops ==
    {Direct(m) : m \in {Prim(d) : d \in Leaves} \cup Structs \cup Anys}
        \cup {Arr(m, k) : m \in Children, k \in 0..MaxCount}
        \cup {SeqOf(m, k) : m \in Children, k \in {0, 2}}

\* the state after the caller has built descriptor t
Start(t, calls) ==
    /\ top = t
    /\ callsLeft = calls
    /\ pc = "idle"
    /\ buf = <<>> /\ input = <<>> /\ n = 0 /\ res = <<>> /\ i = 0
    /\ consumed = 0
    /\ retval = <<>>
    /\ error = NoError
    /\ heap = IF IsInstance(t.child) THEN <<NewAttrs(t.child)>> ELSE <<>>
    /\ cs = <<>> /\ steps = <<>> /\ tried = 0
    /\ returned = {}

\* one call on any descriptor
Init == host = "little" /\ \E t \in Tops : Start(t, 1)

Next ==
    \/ Call(Buffers)
    \/ DirectStep
    \/ ArrFor
    \/ ArrBody
    \/ SeqWhile
    \/ SeqBody

Spec == Init /\ [][Next]_vars

\* the list types over a primitive or a record of at most one field
InitLists ==
    /\ host = "little"
    /\ \E t \in {u \in Tops : u.kind # "Direct" /\ Len(u.child.children) <= 1} : Start(t, 1)

NextLists ==
    \/ Call(Buffers)
    \/ ArrFor
    \/ ArrBody
    \/ SeqWhile
    \/ SeqBody

\* a call, once made, runs: the interpreter takes the next step of the one
\* thread there is
SpecFair == InitLists /\ [][NextLists]_vars /\ WF_vars(NextLists)

\* integers of every width, signedness and byte order on either host
InitInt ==
    /\ host \in {"little", "big"}
    /\ \E d \in Ints : Start(Direct(Prim(d)), 1)

NextInt ==
    \/ Call(IntBuffers)
    \/ DirectStep

SpecInt == InitInt /\ [][NextInt]_vars

\* a direct parse of a choice, of a record
NextDirect ==
    \/ Call(Buffers)
    \/ DirectStep

InitAny == host = "little" /\ \E m \in Anys : Start(Direct(m), 1)

SpecAny == InitAny /\ [][NextDirect]_vars

InitRecord == host = "little" /\ \E m \in Structs : Start(Direct(m), 1)

SpecRecord == InitRecord /\ [][NextDirect]_vars

\* sequences
InitSeq ==
    /\ host = "little"
    /\ \E m \in Children, k \in {0, 2} : Start(SeqOf(m, k), 1)

NextSeq ==
    \/ Call(Buffers)
    \/ SeqWhile
    \/ SeqBody

SpecSeq == InitSeq /\ [][NextSeq]_vars

\* a descriptor holding a record: MaxCalls calls on the same instance
InitReuse ==
    /\ host = "little"
    /\ \E t \in {u \in Tops : u.child.kind = "Struct" /\ u.child.align = 0} :
           Start(t, MaxCalls)

SpecReuse == InitReuse /\ [][Next]_vars

(***************************************************************************)
(* Properties.                                                             *)
(***************************************************************************)
RECURSIVE SumSeq(_)
SumSeq(q) == IF q = <<>> THEN 0 ELSE q[1] + SumSeq(Tail(q))

SetMax(S) == IF S = {} THEN 0 ELSE CHOOSE m \in S : \A y \in S : y <= m

Finished == pc \in {"returned", "raised"}

\* the single primitive, the fields or the candidates of what top holds
Kids == top.child.children

\* C1: when Arr.parse returns, the Arr's _consumed is the sum of the bytes its
\* elements consumed, and an Arr with an element count N returns N elements.
ArrConsumedIsSum ==
    (top.kind = "Arr" /\ pc = "returned") =>
        /\ consumed = SumSeq(cs)
        /\ top.length # 0 => Len(retval) = top.length

\* C2: after a parse that returned, _consumed of the descriptor is at most the
\* length of the buffer the call was given.
ConsumedWithinBuffer == pc = "returned" => consumed <= Len(buf)

\* the bytes the specification counts for a field that consumed c bytes
\* under alignment stride a
AlignUp(c, a) == IF c % a = 0 THEN c ELSE c + (a - (c % a))

\* C3: a struct-mode record with alignment stride A > 0 counts, for a field
\* that consumed c bytes, c rounded up to a multiple of A (c itself when c is
\* a multiple), hands the next field the window past those bytes, and reports
\* the sum of these counts as its _consumed.
StructAlignedAdvance ==
    (pc = "returned" /\ top.kind = "Direct" /\ top.child.kind = "Struct"
        /\ ~top.child.union /\ top.child.align > 0) =>
        /\ \A k \in 1..Len(steps) :
              /\ steps[k].nbytes = AlignUp(steps[k].c, top.child.align)
              /\ k < Len(steps) =>
                    steps[k + 1].win = Drop(steps[k].win, AlignUp(steps[k].c, top.child.align))
        /\ consumed = SumSeq([k \in 1..Len(steps) |-> AlignUp(steps[k].c, top.child.align)])

\* C4: the fields of a record a parse call has returned are not changed by a
\* later parse, be it the next top-level call or the next element of a list.
ReturnedRecordsKept ==
    [][\A id \in returned : id <= Len(heap) => heap'[id] = heap[id]]_vars

\* C5: every parse call ends, with a value or an exception.
ParseTerminates == <>Finished

\* what candidate k of the choice does on the buffer of the call
Candidate(k) == LeafParse(Kids[k], host, buf)

\* C6: Any.parse returns the value and the consumed bytes of the first
\* candidate, in declared order, that parses the buffer of the call without
\* an error, calling no candidate after it; it raises only when every
\* candidate raises, with one entry per candidate, in declared order, naming
\* the candidate's kind, the exception's type and its message.
AnyFirstMatch ==
    (top.child.kind = "Any" /\ Finished) =>
        LET good == {k \in 1..Len(Kids) : Candidate(k).ok}
        IN  IF good # {}
            THEN LET first == CHOOSE k \in good : \A j \in good : k <= j
                 IN  /\ pc = "returned"
                     /\ retval = <<Candidate(first).val>>
                     /\ consumed = Candidate(first).c
                     /\ tried = first
            ELSE /\ pc = "raised"
                 /\ error.exc = "ValueError"
                 /\ error.entries =
                        [k \in 1..Len(Kids) |->
                            [cand |-> Kids[k].kind, exc |-> Candidate(k).exc,
                             info |-> Candidate(k).info]]

\* C6 witness: the first candidate raised and the second one's value came back
AnySecondMatched ==
    /\ top.child.kind = "Any" /\ pc = "returned" /\ tried = 2
    /\ ~Candidate(1).ok /\ consumed > 0

\* what the child of the sequence does on the window k bytes into the buffer
\* (a value and a byte count do not depend on the record's earlier attributes)
ElementAt(k) == ParseOne(top.child, host, 1, Drop(buf, k), NewAttrs(top.child)).out

\* the bytes consumed before element k of the list
Before(k) == SumSeq(SubSeq(cs, 1, k - 1))

\* C7: Seq.parse never raises.  It returns the values its child returned on
\* successive windows, in order, as long as the window is not empty, the
\* consumed total is below the limit and the child does not raise; its
\* _consumed is the sum of the bytes the child consumed for them.
SeqStopsQuietly ==
    /\ top.kind = "Seq" => pc # "raised"
    /\ (top.kind = "Seq" /\ pc = "returned") =>
        /\ consumed = SumSeq(cs)
        /\ Len(retval) = Len(cs)
        /\ \A k \in 1..Len(retval) :
              /\ Drop(buf, Before(k)) # <<>>
              /\ top.limit = 0 \/ Before(k) < top.limit
              /\ ~top.child.cls
              /\ ElementAt(Before(k)).ok
              /\ retval[k] = ElementAt(Before(k)).val
              /\ cs[k] = ElementAt(Before(k)).c
        /\ \/ Drop(buf, consumed) = <<>>
           \/ top.limit # 0 /\ consumed >= top.limit
           \/ top.child.cls
           \/ ~ElementAt(consumed).ok

\* C7 witness: two elements parsed, then bytes the child raises on
SeqTwoThenGarbage ==
    /\ top.kind = "Seq" /\ pc = "returned" /\ top.limit = 0
    /\ Len(retval) = 2 /\ consumed = 2 /\ Len(buf) = 3
    /\ ~ElementAt(consumed).ok

FirstNul(b) ==
    IF \E k \in 1..Len(b) : b[k] = NUL
    THEN (CHOOSE k \in 1..Len(b) : b[k] = NUL /\ \A j \in 1..(k - 1) : b[j] # NUL) - 1
    ELSE -1

\* C9: a string descriptor with no maximum length yields the text before the
\* first NUL byte and consumes the bytes up to and including it, or the whole
\* buffer when it holds no NUL byte.
StrNulTerminated ==
    (top = Direct(Prim(Str(0))) /\ Finished /\ FirstBad(buf) = 0) =>
        /\ pc = "returned"
        /\ IF FirstNul(buf) >= 0
           THEN /\ retval = <<StrV(Take(buf, FirstNul(buf)))>>
                /\ consumed = FirstNul(buf) + 1
           ELSE consumed = Len(buf)

\* C10: an integer descriptor of n bits, n in {8, 16, 32, 64}, decodes the
\* first n/8 bytes of a buffer that holds them and records n/8 consumed
\* bytes; on a shorter buffer it raises.
IntWidth ==
    (top.child.kind = "Prim" /\ Kids[1].kind = "Int" /\ Kids[1].n \in {8, 16, 32, 64}
        /\ Finished) =>
        LET d == Kids[1]
            width == d.n \div 8
        IN  IF Len(buf) >= width
            THEN /\ pc = "returned"
                 /\ consumed = width
                 /\ retval = <<unpack(d.signed, ByteOrder(d.endian, host), Take(buf, width))>>
            ELSE pc = "raised"
====
